---- MODULE Spec2Model ----
(***************************************************************************)
(* Model of cbopensource/driver/theatconnect.py: the ThreatConnect driver, *)
(* its source enumeration, the indicator factories and the two report      *)
(* generators (Expanded, Condensed).                                       *)
(*                                                                         *)
(* Text (Python str) is modelled as a sequence of one-character strings,   *)
(* so that strip, split and readlines do what the code does.               *)
(***************************************************************************)
EXTENDS Integers, Sequences, FiniteSets, TLC

\* ------------------------------------------------------------------ bounds
\* Largest max_reports a configuration is built with.
MaxCap == 1
\* Owners the owner listing yields in one pass, at most.
MaxOwners == 2
\* Raw indicator records the remote listing yields in one pass, at most.
MaxFetch == 3
\* Fetches the remote fails in one pass, at most.
MaxFailures == 1
\* Largest id of an owner generate_id is applied to.
MaxSourceId == 16
\* Largest integer ioc_min_score a configuration is built with (from -1 on).
MaxMinScore == 101

\* ------------------------------------------------------------- text helpers
IsSpace(c) == c \in {" ", "\n", "\t", "\r"}

RECURSIVE LStrip(_)
LStrip(s) == IF s # <<>> /\ IsSpace(Head(s)) THEN LStrip(Tail(s)) ELSE s

RECURSIVE RStrip(_)
RStrip(s) == IF s # <<>> /\ IsSpace(s[Len(s)])
             THEN RStrip(SubSeq(s, 1, Len(s) - 1)) ELSE s

\* str.strip()
Strip(s) == RStrip(LStrip(s))

\* str.split(sep): the pieces between the separators, empty pieces kept
RECURSIVE SplitFrom(_, _, _)
SplitFrom(s, sep, cur) ==
    IF s = <<>> THEN <<cur>>
    ELSE IF Head(s) = sep THEN <<cur>> \o SplitFrom(Tail(s), sep, <<>>)
    ELSE SplitFrom(Tail(s), sep, Append(cur, Head(s)))

Split(s, sep) == SplitFrom(s, sep, <<>>)

\* file.readlines(): the lines of a text, each with its line terminator
RECURSIVE ReadLinesFrom(_, _)
ReadLinesFrom(s, cur) ==
    IF s = <<>> THEN (IF cur = <<>> THEN <<>> ELSE <<cur>>)
    ELSE IF Head(s) = "\n" THEN <<Append(cur, "\n")>> \o ReadLinesFrom(Tail(s), <<>>)
    ELSE ReadLinesFrom(Tail(s), Append(cur, Head(s)))

ReadLines(s) == ReadLinesFrom(s, <<>>)

\* x in text
Contains(s, c) == \E i \in 1..Len(s) : s[i] = c

Range(s) == {s[i] : i \in 1..Len(s)}

\* str(n) of a natural number
Digits == <<"0", "1", "2", "3", "4", "5", "6", "7", "8", "9">>

RECURSIVE ToStr(_)
ToStr(n) == IF n < 10 THEN <<Digits[n + 1]>>
            ELSE ToStr(n \div 10) \o <<Digits[(n % 10) + 1]>>

\* int(text): optional surrounding whitespace, an optional sign, decimal
\* digits; anything else is a ValueError (ok is FALSE)
IsDigit(c) == \E i \in 1..Len(Digits) : Digits[i] = c

DigitValue(c) == (CHOOSE i \in 1..Len(Digits) : Digits[i] = c) - 1

RECURSIVE DigitsValue(_)
DigitsValue(s) == IF s = <<>> THEN 0
                  ELSE 10 * DigitsValue(SubSeq(s, 1, Len(s) - 1)) + DigitValue(s[Len(s)])

ParseInt(text) ==
    LET s == Strip(text)
        signed == s # <<>> /\ Head(s) \in {"-", "+"}
        body == IF signed THEN Tail(s) ELSE s
    IN IF body = <<>> \/ \E i \in 1..Len(body) : ~IsDigit(body[i])
       THEN [ok |-> FALSE, value |-> 0]
       ELSE [ok |-> TRUE, value |-> IF signed /\ Head(s) = "-" THEN 0 - DigitsValue(body)
                                    ELSE DigitsValue(body)]

\* An option value that is an int, or a str
IntValue(n) == [str |-> FALSE, int |-> n, text |-> <<>>]

StrValue(t) == [str |-> TRUE, int |-> 0, text |-> t]

\* int(v)
PyInt(v) == IF v.str THEN ParseInt(v.text) ELSE [ok |-> TRUE, value |-> v.int]

\* min(a, b), max(a, b)
PyMin(a, b) == IF b < a THEN b ELSE a

PyMax(a, b) == IF b > a THEN b ELSE a

\* a | b on naturals
RECURSIVE BitOr(_, _)
BitOr(a, b) == IF a = 0 THEN b
               ELSE IF b = 0 THEN a
               ELSE (IF (a % 2 = 1) \/ (b % 2 = 1) THEN 1 ELSE 0)
                    + 2 * BitOr(a \div 2, b \div 2)

\* a << n on naturals
ShiftLeft(a, n) == a * (2 ^ n)

\* ------------------------------------------------------------------ _Sources
\* _Sources.__init__: _values is a generator expression over the stripped
\* pieces; a generator is the sequence of the items it has not produced yet.
Sources_init(sources) ==
    LET s == Strip(sources)
        all == (s = <<"*">>)
        pieces == Split(s, ",")
    IN [all |-> all,
        values |-> IF all THEN <<>> ELSE [i \in 1..Len(pieces) |-> Strip(pieces[i])]]

\* key in generator: items are consumed up to and including the first match
RECURSIVE GenContains(_, _)
GenContains(gen, key) ==
    IF gen = <<>> THEN [found |-> FALSE, rest |-> <<>>]
    ELSE IF Head(gen) = key THEN [found |-> TRUE, rest |-> Tail(gen)]
    ELSE GenContains(Tail(gen), key)

\* _Sources.__contains__: the answer and the _Sources object afterwards
Sources_contains(srcs, key) ==
    IF srcs.all THEN [found |-> TRUE, sources |-> srcs]
    ELSE LET r == GenContains(srcs.values, key)
         IN [found |-> r.found, sources |-> [srcs EXCEPT !.values = r.rest]]

\* str.upper() on the letters the configuration texts use
LowerCase == <<"a", "c", "d", "e", "f", "h", "i", "l", "n", "o", "p", "r", "s", "t", "x">>
UpperCase == <<"A", "C", "D", "E", "F", "H", "I", "L", "N", "O", "P", "R", "S", "T", "X">>

UpperChar(c) ==
    IF \E i \in 1..Len(LowerCase) : LowerCase[i] = c
    THEN UpperCase[CHOOSE i \in 1..Len(LowerCase) : LowerCase[i] = c]
    ELSE c

Upper(s) == [i \in 1..Len(s) |-> UpperChar(s[i])]

\* ------------------------------------------------------- IocType, IocGrouping
\* IocType: the enum's values
IocType == [File |-> <<"F", "I", "L", "E">>,
            Address |-> <<"A", "D", "D", "R", "E", "S", "S">>,
            Host |-> <<"H", "O", "S", "T">>]

\* IocGrouping: the enum's values
IocGrouping == [Condensed |-> <<"C", "O", "N", "D", "E", "N", "S", "E", "D">>,
                Expanded |-> <<"E", "X", "P", "A", "N", "D", "E", "D">>]

\* Enum(value): the member with that value; no member is a ValueError
EnumLookup(enum, value) ==
    IF \E m \in DOMAIN enum : enum[m] = value
    THEN CHOOSE m \in DOMAIN enum : enum[m] = value
    ELSE "ValueError"

\* IocFactory.from_text: the factory of the kind named by the text
IocFactory_from_text(text) == EnumLookup(IocType, Upper(Strip(text)))

\* IocFactory.all: it reads cls.ioc_map, and the class attribute is _ioc_map
IocFactory_all == [raised |-> "AttributeError", list |-> <<>>]

\* IocFactory.from_text_to_list: the exception that leaves the call ("" for
\* none) and the list returned; cls.All() is a lookup of an attribute the class
\* does not have (its method is named all)
from_text_to_list(text, all_if_none) ==
    IF text # <<>>
    THEN LET pieces == Split(text, ",")
             kinds == [i \in 1..Len(pieces) |-> IocFactory_from_text(pieces[i])]
         IN IF \E i \in 1..Len(kinds) : kinds[i] = "ValueError"
            THEN [raised |-> "ValueError", list |-> <<>>]
            ELSE [raised |-> "", list |-> kinds]
    ELSE IF all_if_none THEN [raised |-> "AttributeError", list |-> <<>>]
    ELSE [raised |-> "", list |-> <<>>]

\* IocGrouping.from_text
IocGrouping_from_text(text, default) ==
    IF text # <<>> THEN EnumLookup(IocGrouping, Upper(Strip(text))) ELSE default

\* -------------------------------------------------------- ThreatConnectConfig
\* A filter file as the constructor sees it: its path (<<>> when the option is
\* missing or empty), the text open(path).read() would give, and whether
\* opening or reading it fails.
NoFile == [path |-> <<>>, content |-> <<>>, error |-> FALSE]

\* _read_filter_file: set(f.readlines()), set() without a path, a ValueError
\* for an OSError or IOError
read_filter_file(filter_file) ==
    IF filter_file.path = <<>> THEN [raised |-> "", lines |-> {}]
    ELSE IF filter_file.error THEN [raised |-> "ValueError", lines |-> {}]
    ELSE [raised |-> "", lines |-> Range(ReadLines(filter_file.content))]

\* No ThreatConnectConfig: the constructor raised
NoConfig == [null |-> TRUE]

\* ThreatConnectConfig.__init__ on the options o: the exception that leaves it
\* ("" for none) and the object built, with the fields the driver and the
\* generators read. ioc_min_score is held in twentieths of a point (the float
\* stored is this number / 20.0).
ThreatConnectConfig(o) ==
    LET min_score == PyInt(o.ioc_min_score)
        ips == read_filter_file(o.ips)
        hashes == read_filter_file(o.hashes)
        hosts == read_filter_file(o.hosts)
        types == from_text_to_list(o.ioc_types, TRUE)
        grouping == IocGrouping_from_text(o.ioc_grouping, "Expanded")
    IN IF o.url = <<>> \/ o.api_key = <<>> \/ o.secret_key = <<>> \/ ~min_score.ok
       THEN [raised |-> "ValueError", config |-> NoConfig]
       ELSE IF ips.raised # "" THEN [raised |-> ips.raised, config |-> NoConfig]
       ELSE IF hashes.raised # "" THEN [raised |-> hashes.raised, config |-> NoConfig]
       ELSE IF hosts.raised # "" THEN [raised |-> hosts.raised, config |-> NoConfig]
       ELSE IF types.raised # "" THEN [raised |-> types.raised, config |-> NoConfig]
       ELSE IF grouping = "ValueError" THEN [raised |-> "ValueError", config |-> NoConfig]
       ELSE IF o.default_org.null THEN [raised |-> "AttributeError", config |-> NoConfig]
       ELSE [raised |-> "",
             config |-> [null |-> FALSE,
                         sources |-> Sources_init(o.sources),
                         filtered_ips |-> ips.lines,
                         filtered_hashes |-> hashes.lines,
                         filtered_hosts |-> hosts.lines,
                         ioc_min_score |-> PyMin(0, PyMax(100, min_score.value)),
                         ioc_types |-> types.list,
                         ioc_grouping |-> grouping,
                         max_reports |-> o.max_reports]]

\* ------------------------------------------------------- _TcSource, _TcIndicator
\* _TcSource(raw_source): oid is the object's identity (the dict key of the
\* Condensed bucket map, since the class defines neither __eq__ nor __hash__)
TcSource(oid, raw_source) ==
    [oid |-> oid, id |-> raw_source.id, name |-> raw_source.name]

\* generate_id with the id moved over 6 bits
generate_id_6_bits(source, score) == BitOr(ShiftLeft(source.id, 6), score)

\* _TcSource.generate_id
generate_id(source, score) == BitOr(ShiftLeft(source.id, 8), score)

\* "filtered out": the None a factory returns
NoIndicator == [null |-> TRUE]

TcIndicator(indicator, source, key, value) ==
    [null |-> FALSE, indicator |-> indicator, source |-> source, key |-> key, value |-> value]

\* _TcIndicator.score: int(rating * 20); threatAssessRating is held in quarters
\* of a point (0..20 for 0.0..5.0), which floats represent exactly
Indicator_score(ind) == (ind.indicator.threatAssessRating * 20) \div 4

\* _TcIndicator.id
Indicator_id(ind) == ToStr(ind.indicator.id)

\* ------------------------------------------------------------------ IocFactory
\* filter_ioc that never filters
filter_ioc_never(indicator, filters) == indicator

\* IocFactory.filter_ioc
filter_ioc(indicator, filters) ==
    IF filters # {} /\ indicator.value \in filters THEN NoIndicator ELSE indicator

\* AddressIoc.create
AddressIoc_create(indicator, source, config) ==
    LET address == indicator.ip
    IN filter_ioc(TcIndicator(indicator, source, IF Contains(address, ":") THEN "ipv6" ELSE "ipv4", address), config.filtered_ips)

\* FileIoc.create
FileIoc_create(indicator, source, config) ==
    LET key == IF "md5" \in DOMAIN indicator THEN "md5" ELSE "sha256"
    IN filter_ioc(TcIndicator(indicator, source, key, indicator[key]), config.filtered_hashes)

\* HostIoc.create
HostIoc_create(indicator, source, config) ==
    filter_ioc(TcIndicator(indicator, source, "dns", indicator.hostName), config.filtered_hosts)

\* ioc_type.create, dispatched on the factory
Ioc_create(ioc_type, indicator, source, config) ==
    CASE ioc_type = "Address" -> AddressIoc_create(indicator, source, config)
      [] ioc_type = "File" -> FileIoc_create(indicator, source, config)
      [] ioc_type = "Host" -> HostIoc_create(indicator, source, config)

\* ----------------------------------------------------------- _TcReportGenerator
\* A report is [id, score, iocs]; iocs maps a sub-type key to a Python set
\* ([list |-> FALSE, vals |-> a set]) or a Python list ([list |-> TRUE,
\* vals |-> a sequence]). link, title, timestamp and tags are copied from
\* the indicator and read by no operation, and are left out.
EmptyDict == [k \in {} |-> 0]

PySet(s) == [list |-> FALSE, vals |-> s]

PyList(q) == [list |-> TRUE, vals |-> q]

\* the values a set or a list holds
Values(c) == IF c.list THEN Range(c.vals) ELSE c.vals

\* not c: an empty set or an empty list
Falsy(c) == IF c.list THEN c.vals = <<>> ELSE c.vals = {}

\* _TcReportGenerator.__init__ and the subclasses' __init__; warned counts the
\* cap warnings this generator has logged
ExpandedReportGenerator ==
    [kind |-> "Expanded", notified_max_reports |-> FALSE, warned |-> 0,
     reports |-> <<>>, reports_map |-> EmptyDict, converted_sets |-> TRUE]

CondensedReportGenerator ==
    [kind |-> "Condensed", notified_max_reports |-> FALSE, warned |-> 0,
     reports |-> <<>>, reports_map |-> EmptyDict, converted_sets |-> TRUE]

\* _reportGenerators
reportGenerators ==
    [Expanded |-> ExpandedReportGenerator, Condensed |-> CondensedReportGenerator]

\* max_reports_notify without its one-shot guard
max_reports_notify_unguarded(g) ==
    [g EXCEPT !.notified_max_reports = TRUE, !.warned = @ + 1]

\* _TcReportGenerator._filters: the filters object it builds and what it
\* returns; there is no return statement, so the caller gets None
TcReportGenerator_filters(config) ==
    [filters |-> IF config.ioc_min_score # 0
                 THEN {<<"rating", ">=", config.ioc_min_score>>}
                 ELSE {},
     ret |-> "None"]

\* _TcReportGenerator.max_reports_notify
max_reports_notify(g) ==
    IF ~g.notified_max_reports
    THEN [g EXCEPT !.notified_max_reports = TRUE, !.warned = @ + 1]
    ELSE g

\* max_reports and len(self._reports) >= max_reports
CapReached(g, config) ==
    config.max_reports # 0 /\ Len(g.reports) >= config.max_reports

\* _add_to_report that tests the cap before it tests for None
Expanded_add_to_report_cap_before_none(g, config, indicator) ==
    IF CapReached(g, config)
    THEN [ret |-> FALSE, gen |-> max_reports_notify(g), raised |-> FALSE]
    ELSE IF indicator.null THEN [ret |-> TRUE, gen |-> g, raised |-> FALSE]
    ELSE LET report == [iocs |-> (indicator.key :> PyList(<<indicator.value>>)),
                        id |-> Indicator_id(indicator),
                        score |-> Indicator_score(indicator)]
         IN [ret |-> TRUE, gen |-> [g EXCEPT !.reports = Append(@, report)], raised |-> FALSE]

\* _add_to_report that keeps one report per (key, value)
Expanded_add_to_report_merging(g, config, indicator) ==
    IF indicator.null THEN [ret |-> TRUE, gen |-> g, raised |-> FALSE]
    ELSE IF CapReached(g, config)
    THEN [ret |-> FALSE, gen |-> max_reports_notify(g), raised |-> FALSE]
    ELSE LET report == [iocs |-> (indicator.key :> PyList(<<indicator.value>>)),
                        id |-> Indicator_id(indicator),
                        score |-> Indicator_score(indicator)]
         IN IF \E i \in 1..Len(g.reports) : g.reports[i].iocs = report.iocs
            THEN [ret |-> TRUE, gen |-> g, raised |-> FALSE]
            ELSE [ret |-> TRUE, gen |-> [g EXCEPT !.reports = Append(@, report)], raised |-> FALSE]

\* _add_to_report with the cap compared by > instead of >=
Expanded_add_to_report_off_by_one(g, config, indicator) ==
    IF indicator.null THEN [ret |-> TRUE, gen |-> g, raised |-> FALSE]
    ELSE IF config.max_reports # 0 /\ Len(g.reports) > config.max_reports
    THEN [ret |-> FALSE, gen |-> max_reports_notify(g), raised |-> FALSE]
    ELSE LET report == [iocs |-> (indicator.key :> PyList(<<indicator.value>>)),
                        id |-> Indicator_id(indicator),
                        score |-> Indicator_score(indicator)]
         IN [ret |-> TRUE, gen |-> [g EXCEPT !.reports = Append(@, report)], raised |-> FALSE]

\* _ExpandedReportGenerator._add_to_report: the value returned, the generator
\* afterwards, and whether an exception left the call
Expanded_add_to_report(g, config, indicator) ==
    IF indicator.null THEN [ret |-> TRUE, gen |-> g, raised |-> FALSE]
    ELSE IF CapReached(g, config)
    THEN [ret |-> FALSE, gen |-> max_reports_notify(g), raised |-> FALSE]
    ELSE LET report == [iocs |-> (indicator.key :> PyList(<<indicator.value>>)),
                        id |-> Indicator_id(indicator),
                        score |-> Indicator_score(indicator)]
         IN [ret |-> TRUE, gen |-> [g EXCEPT !.reports = Append(@, report)], raised |-> FALSE]

\* 101 because 0 to 100 inclusive
ScoreListLen == 101

\* _CondensedReportGenerator._get_score_list: the generator afterwards; the
\* score list is then reports_map[source.oid], a slot holding the index in
\* reports of the report it refers to, 0 for None
Condensed_get_score_list(g, source) ==
    IF source.oid \in DOMAIN g.reports_map THEN g
    ELSE [g EXCEPT !.reports_map = @ @@ (source.oid :> [s \in 0..(ScoreListLen - 1) |-> 0])]

\* _get_report with the cap checked before the bucket is looked up
Condensed_get_report_cap_first(g, config, indicator) ==
    LET g1 == Condensed_get_score_list(g, indicator.source)
        score == Indicator_score(indicator)
        idx == g1.reports_map[indicator.source.oid][score]
    IN IF CapReached(g1, config)
       THEN [idx |-> 0, gen |-> max_reports_notify(g1)]
       ELSE IF idx # 0 THEN [idx |-> idx, gen |-> g1]
       ELSE LET report == [iocs |-> EmptyDict,
                           id |-> generate_id(indicator.source, score),
                           score |-> score]
                n == Len(g1.reports) + 1
            IN [idx |-> n,
                gen |-> [g1 EXCEPT !.reports_map[indicator.source.oid][score] = n,
                                   !.reports = Append(@, report)]]

\* _CondensedReportGenerator._get_report: the report's index (0 for None) and
\* the generator afterwards
Condensed_get_report(g, config, indicator) ==
    LET g1 == Condensed_get_score_list(g, indicator.source)
        score == Indicator_score(indicator)
        idx == g1.reports_map[indicator.source.oid][score]
    IN IF idx # 0 THEN [idx |-> idx, gen |-> g1]
       ELSE IF CapReached(g1, config)
       THEN [idx |-> 0, gen |-> max_reports_notify(g1)]
       ELSE LET report == [iocs |-> EmptyDict,
                           id |-> generate_id(indicator.source, score),
                           score |-> score]
                n == Len(g1.reports) + 1
            IN [idx |-> n,
                gen |-> [g1 EXCEPT !.reports_map[indicator.source.oid][score] = n,
                                   !.reports = Append(@, report)]]

\* _add_to_report that starts a new set at every add
Condensed_add_to_report_fresh_set(g, config, indicator) ==
    IF indicator.null THEN [ret |-> TRUE, gen |-> g, raised |-> FALSE]
    ELSE LET r == Condensed_get_report(g, config, indicator)
         IN IF r.idx = 0 THEN [ret |-> TRUE, gen |-> r.gen, raised |-> FALSE]
            ELSE [ret |-> TRUE, raised |-> FALSE,
                  gen |-> [r.gen EXCEPT !.converted_sets = FALSE,
                                        !.reports[r.idx].iocs =
                                            (indicator.key :> PySet({indicator.value})) @@ @]]

\* _CondensedReportGenerator._add_to_report; set.add on a list is an
\* AttributeError
Condensed_add_to_report(g, config, indicator) ==
    IF indicator.null THEN [ret |-> TRUE, gen |-> g, raised |-> FALSE]
    ELSE LET r == Condensed_get_report(g, config, indicator)
         IN IF r.idx = 0 THEN [ret |-> TRUE, gen |-> r.gen, raised |-> FALSE]
            ELSE LET g2 == [r.gen EXCEPT !.converted_sets = FALSE]
                     iocs == g2.reports[r.idx].iocs
                     key == indicator.key
                     fresh == key \notin DOMAIN iocs \/ Falsy(iocs[key])
                     ioc_list == IF fresh THEN PySet({}) ELSE iocs[key]
                 IN IF ioc_list.list
                    THEN [ret |-> TRUE, gen |-> g2, raised |-> TRUE]
                    ELSE [ret |-> TRUE, raised |-> FALSE,
                          gen |-> [g2 EXCEPT !.reports[r.idx].iocs =
                                     (key :> PySet(ioc_list.vals \cup {indicator.value})) @@ @]]

\* self._add_to_report, dispatched on the generator's class
add_to_report(g, config, indicator) ==
    IF g.kind = "Expanded" THEN Expanded_add_to_report(g, config, indicator)
    ELSE Condensed_add_to_report(g, config, indicator)

\* list(v): the elements of a set in some order, a copy of a list
RECURSIVE Orders(_)
Orders(s) == IF s = {} THEN {<<>>}
             ELSE UNION {{<<x>> \o q : q \in Orders(s \ {x})} : x \in s}

ListOf(c) == IF c.list THEN {PyList(c.vals)} ELSE {PyList(q) : q \in Orders(c.vals)}

\* for k, v in report["iocs"].iteritems(): report["iocs"][k] = list(v)
ConvertIocs(iocs) ==
    {f \in [DOMAIN iocs -> UNION {ListOf(iocs[k]) : k \in DOMAIN iocs}] :
        \A k \in DOMAIN iocs : f[k] \in ListOf(iocs[k])}

RECURSIVE ConvertReports(_)
ConvertReports(reports) ==
    IF reports = <<>> THEN {<<>>}
    ELSE {<<[Head(reports) EXCEPT !.iocs = io]>> \o rest :
            io \in ConvertIocs(Head(reports).iocs), rest \in ConvertReports(Tail(reports))}

\* the reports property handing out the reports as they are
Generator_reports_unconverted(g) == {[g EXCEPT !.converted_sets = TRUE]}

\* the reports property: the generators it may leave, each holding the
\* reports it returns
Generator_reports(g) ==
    IF g.kind = "Condensed" /\ ~g.converted_sets
    THEN {[g EXCEPT !.reports = r, !.converted_sets = TRUE] : r \in ConvertReports(g.reports)}
    ELSE {g}

\* ------------------------------------------------------------------- inputs
\* Owners the remote owner listing may return (one may be listed twice).
OwnerPool == {[id |-> 1, name |-> <<"A">>], [id |-> 3, name |-> <<"B">>]}

\* Raw records the remote indicator listing may return, by kind; the
\* threatAssessRating is in quarters of a point (4 is 1.0, 12 is 3.0).
RawRecords(ioc_type) ==
    CASE ioc_type = "Address" ->
            {[id |-> 4, threatAssessRating |-> 4, ip |-> <<":", "1">>],
             [id |-> 5, threatAssessRating |-> 12, ip |-> <<"1">>]}
      [] ioc_type = "File" ->
            {[id |-> 6, threatAssessRating |-> 4, md5 |-> <<"a">>],
             [id |-> 7, threatAssessRating |-> 4, sha256 |-> <<"b">>],
             [id |-> 8, threatAssessRating |-> 4, md5 |-> <<"c">>, sha256 |-> <<"b">>]}
      [] ioc_type = "Host" ->
            {[id |-> 9, threatAssessRating |-> 4, hostName |-> <<"h">>],
             [id |-> 10, threatAssessRating |-> 12, hostName |-> <<"g">>]}

\* A default_org option: None, or a text
NoText == [null |-> TRUE, text |-> <<>>]

Text(t) == [null |-> FALSE, text |-> t]

\* The options every configuration explored has
BaseOptions ==
    [url |-> <<"u">>, api_key |-> <<"k">>, secret_key |-> <<"s">>,
     ioc_min_score |-> IntValue(0), default_org |-> Text(<<"o">>)]

\* The options of the configurations explored:
\*   sources "*", no filter file, ioc_types "file, Address";
\*   sources " B, A", an IP file of two lines (the last one without a line
\*     terminator), a hash file of one unterminated line, ioc_types "file, Address";
\*   sources "*", a host file of two lines, ioc_types "host".
ConfigOptions ==
    {BaseOptions @@ o : o \in
      {[sources |-> <<"*">>, ips |-> NoFile, hashes |-> NoFile, hosts |-> NoFile,
        ioc_types |-> <<"f", "i", "l", "e", ",", " ", "A", "d", "d", "r", "e", "s", "s">>],
       [sources |-> <<" ", "B", ",", " ", "A">>,
        ips |-> [path |-> <<"i">>, content |-> <<"1", "\n", ":", "1">>, error |-> FALSE],
        hashes |-> [path |-> <<"x">>, content |-> <<"b">>, error |-> FALSE],
        hosts |-> NoFile,
        ioc_types |-> <<"f", "i", "l", "e", ",", " ", "A", "d", "d", "r", "e", "s", "s">>],
       [sources |-> <<"*">>, ips |-> NoFile, hashes |-> NoFile,
        hosts |-> [path |-> <<"y">>, content |-> <<"g", "\n", "h">>, error |-> FALSE],
        ioc_types |-> <<"h", "o", "s", "t">>]}}

\* The ioc_grouping option: missing, and "condensed"
GroupingTexts == {<<>>, <<"c", "o", "n", "d", "e", "n", "s", "e", "d">>}

\* Exceptions the owner listing may raise.
ListingErrors == {"RuntimeError"}

\* -------------------------------------------------------------------- state
VARIABLES
    sources_option, \* the sources option the configuration was built from
    config,     \* the ThreatConnectConfig shared by the driver and the client
    client,     \* ThreatConnectDriver._client: FALSE for None, TRUE once set
    pc,         \* "idle", or the place generate_reports is at: "sources", "fetch"
    passes,     \* report generators ThreatConnectDriver.generate_reports has run
    gen,        \* the report generator of the current (or last) pass
    next_oid,   \* _TcSource objects built in this pass
    source,     \* the source of the outer loop
    kind_idx,   \* the position of the inner loop in config.ioc_types
    fetched,    \* raw records the remote listing has yielded in this pass
    outcome,    \* how the last call ended: "none", "running", "returned", or the exception
    result,     \* the reports the last call returned
    last,       \* the last operation, with its input and its answer
    rejected,   \* indicators of this pass that were offered and not taken up
    filtered,   \* records of this pass the factories filtered out
    failures,   \* fetches of this pass that failed
    added       \* <<source oid, score, key, value>> of the indicators taken up

vars == <<sources_option, config, client, pc, passes, gen, next_oid, source, kind_idx, fetched,
          outcome, result, last, rejected, filtered, failures, added>>

NoSource == [oid |-> 0, id |-> 0, name |-> <<>>]

Init ==
    /\ \E o \in ConfigOptions, gt \in GroupingTexts, mr \in 0..MaxCap :
          /\ sources_option = o.sources
          /\ config = ThreatConnectConfig(o @@ [ioc_grouping |-> gt, max_reports |-> mr]).config
    /\ client = FALSE
    /\ pc = "idle"
    /\ passes = 0
    /\ gen = ExpandedReportGenerator
    /\ next_oid = 1
    /\ source = NoSource
    /\ kind_idx = 0
    /\ fetched = 0
    /\ outcome = "none"
    /\ result = <<>>
    /\ last = [op |-> "none"]
    /\ rejected = 0
    /\ filtered = 0
    /\ failures = 0
    /\ added = {}

\* ------------------------------------------------------- ThreatConnectDriver
\* ThreatConnectDriver.initialize (the caller initializes once)
Initialize ==
    /\ pc = "idle"
    /\ ~client
    /\ client' = TRUE
    /\ last' = [op |-> "initialize"]
    /\ UNCHANGED <<sources_option, config, pc, passes, gen, next_oid, source, kind_idx, fetched,
                   outcome, result, rejected, filtered, failures, added>>

\* generate_reports without the check of _client
DriverGenerateReports_unchecked ==
    /\ pc = "idle"
    /\ passes = 0
    /\ passes' = passes + 1
    /\ gen' = reportGenerators[config.ioc_grouping]
    /\ pc' = "sources"
    /\ outcome' = "running"
    /\ result' = <<>>
    /\ last' = [op |-> "call", started |-> TRUE]
    /\ next_oid' = 1
    /\ source' = NoSource
    /\ kind_idx' = 0
    /\ fetched' = 0
    /\ rejected' = 0
    /\ filtered' = 0
    /\ failures' = 0
    /\ added' = {}
    /\ UNCHANGED <<sources_option, config, client>>

\* ThreatConnectDriver.generate_reports up to the generator's first step: the
\* RuntimeError without a client, else the generator of the configured grouping.
\* A behaviour holds any number of calls that raise and one generation pass.
DriverGenerateReports ==
    /\ pc = "idle"
    /\ IF ~client
       THEN /\ outcome' = "RuntimeError: not initialized"
            /\ result' = <<>>
            /\ last' = [op |-> "call", started |-> FALSE]
            /\ UNCHANGED <<passes, pc, gen, next_oid, source, kind_idx, fetched,
                           rejected, filtered, failures, added>>
       ELSE /\ passes = 0
            /\ passes' = passes + 1
            /\ gen' = reportGenerators[config.ioc_grouping]
            /\ pc' = "sources"
            /\ outcome' = "running"
            /\ result' = <<>>
            /\ last' = [op |-> "call", started |-> TRUE]
            /\ next_oid' = 1
            /\ source' = NoSource
            /\ kind_idx' = 0
            /\ fetched' = 0
            /\ rejected' = 0
            /\ filtered' = 0
            /\ failures' = 0
            /\ added' = {}
    /\ UNCHANGED <<sources_option, config, client>>

\* return self.reports
ReturnReports(g) ==
    /\ gen' \in Generator_reports(g)
    /\ result' = gen'.reports
    /\ outcome' = "returned"
    /\ pc' = "idle"

\* the inner loop moves to the next kind, the outer loop to the next source
NextKind ==
    IF kind_idx < Len(config.ioc_types)
    THEN pc' = "fetch" /\ kind_idx' = kind_idx + 1
    ELSE pc' = "sources" /\ kind_idx' = kind_idx

\* ------------------------------------------------------------------ _TcSources
\* The owner listing yields an owner: _TcSources builds its _TcSource, tests
\* the allow-list, and yields it (the pass enters the loop over the kinds) or
\* goes on to the next owner.
NextOwner ==
    /\ pc = "sources"
    /\ next_oid <= MaxOwners
    /\ \E raw \in OwnerPool :
          LET owner == TcSource(next_oid, raw)
              t == Sources_contains(config.sources, owner.name)
          IN /\ config' = [config EXCEPT !.sources = t.sources]
             /\ last' = [op |-> "test", name |-> owner.name, yielded |-> t.found]
             /\ IF t.found /\ Len(config.ioc_types) > 0
                THEN source' = owner /\ pc' = "fetch" /\ kind_idx' = 1
                ELSE UNCHANGED <<source, pc, kind_idx>>
    /\ next_oid' = next_oid + 1
    /\ UNCHANGED <<sources_option, client, passes, gen, fetched, outcome, result,
                   rejected, filtered, failures, added>>

\* The owner listing is exhausted: generate_reports returns self.reports.
OwnersEnd ==
    /\ pc = "sources"
    /\ ReturnReports(gen)
    /\ last' = [op |-> "owners_end"]
    /\ UNCHANGED <<sources_option, config, client, passes, next_oid, source, kind_idx, fetched,
                   rejected, filtered, failures, added>>

\* generate_reports catching the listing's failure and returning what it has
OwnersFail_caught ==
    /\ pc = "sources"
    /\ ReturnReports(gen)
    /\ last' = [op |-> "owners_fail"]
    /\ UNCHANGED <<sources_option, config, client, passes, next_oid, source, kind_idx,
                   fetched, rejected, filtered, failures, added>>

\* The owner listing raises: _TcSources logs a RuntimeError and re-raises, any
\* other exception passes through; generate_reports does not catch it.
OwnersFail ==
    /\ pc = "sources"
    /\ \E e \in ListingErrors : outcome' = e
    /\ result' = <<>>
    /\ pc' = "idle"
    /\ last' = [op |-> "owners_fail"]
    /\ UNCHANGED <<sources_option, config, client, passes, gen, next_oid, source, kind_idx, fetched,
                   rejected, filtered, failures, added>>

\* ------------------------------------------- _TcReportGenerator.generate_reports
\* Whether the indicator is in the reports after the add
TakenUp(g, g2, indicator) ==
    IF g.kind = "Expanded" THEN Len(g2.reports) = Len(g.reports) + 1
    ELSE LET oid == indicator.source.oid
             score == Indicator_score(indicator)
         IN /\ oid \in DOMAIN g2.reports_map
            /\ g2.reports_map[oid][score] # 0
            /\ LET iocs == g2.reports[g2.reports_map[oid][score]].iocs
               IN indicator.key \in DOMAIN iocs /\ indicator.value \in Values(iocs[indicator.key])

\* The indicator listing of the current (source, kind) yields a raw record: the
\* factory builds the indicator, _add_to_report takes it, and a False answer
\* ends the pass; an exception of the add is caught like one of the fetch.
FetchIndicator ==
    /\ pc = "fetch"
    /\ fetched < MaxFetch
    /\ fetched' = fetched + 1
    /\ \E raw \in RawRecords(config.ioc_types[kind_idx]) :
          LET indicator == Ioc_create(config.ioc_types[kind_idx], raw, source, config)
              r == add_to_report(gen, config, indicator)
              taken == ~indicator.null /\ ~r.raised /\ TakenUp(gen, r.gen, indicator)
          IN /\ last' = [op |-> "add", indicator |-> indicator, ret |-> r.ret, raised |-> r.raised]
             /\ filtered' = IF indicator.null THEN filtered + 1 ELSE filtered
             /\ rejected' = IF ~indicator.null /\ ~r.raised /\ ~taken THEN rejected + 1 ELSE rejected
             /\ added' = IF taken
                         THEN added \cup {<<source.oid, Indicator_score(indicator), indicator.key, indicator.value>>}
                         ELSE added
             /\ IF r.raised
                THEN gen' = r.gen /\ NextKind /\ failures' = failures + 1
                     /\ UNCHANGED <<outcome, result>>
                ELSE IF ~r.ret
                THEN ReturnReports(r.gen) /\ UNCHANGED <<kind_idx, failures>>
                ELSE gen' = r.gen /\ UNCHANGED <<pc, kind_idx, outcome, result, failures>>
    /\ UNCHANGED <<sources_option, config, client, passes, next_oid, source>>

\* The indicator listing of the current (source, kind) is exhausted.
FetchEnd ==
    /\ pc = "fetch"
    /\ NextKind
    /\ last' = [op |-> "fetch_end"]
    /\ UNCHANGED <<sources_option, config, client, passes, gen, next_oid, source, fetched,
                   outcome, result, rejected, filtered, failures, added>>

\* generate_reports without the try/except around the fetch
FetchFail_propagates ==
    /\ pc = "fetch"
    /\ failures < MaxFailures
    /\ failures' = failures + 1
    /\ outcome' = "Exception"
    /\ result' = <<>>
    /\ pc' = "idle"
    /\ last' = [op |-> "fetch_fail"]
    /\ UNCHANGED <<sources_option, config, client, passes, gen, next_oid, source,
                   kind_idx, fetched, rejected, filtered, added>>

\* The fetch of the current (source, kind) raises, at its start or between two
\* records: except Exception logs it and the loop over the kinds goes on.
FetchFail ==
    /\ pc = "fetch"
    /\ failures < MaxFailures
    /\ NextKind
    /\ failures' = failures + 1
    /\ last' = [op |-> "fetch_fail"]
    /\ UNCHANGED <<sources_option, config, client, passes, gen, next_oid, source, fetched,
                   outcome, result, rejected, filtered, added>>

Next ==
    \/ Initialize
    \/ DriverGenerateReports
    \/ NextOwner
    \/ OwnersEnd
    \/ OwnersFail
    \/ FetchIndicator
    \/ FetchEnd
    \/ FetchFail

Spec == Init /\ [][Next]_vars

\* ------------------------------------------------- _TcSource.generate_id alone
\* A driver on which nothing has been called: the values the variables of a
\* generation pass have in Init
Untouched ==
    /\ client = FALSE
    /\ pc = "idle"
    /\ passes = 0
    /\ next_oid = 1
    /\ kind_idx = 0
    /\ fetched = 0
    /\ outcome = "none"
    /\ result = <<>>
    /\ rejected = 0
    /\ filtered = 0
    /\ failures = 0
    /\ added = {}

\* The configuration of the first of ConfigOptions, Condensed, without a cap
DefaultConfig ==
    LET o == CHOOSE c \in ConfigOptions : c.sources = <<"*">> /\ c.hosts = NoFile
    IN ThreatConnectConfig(o @@ [ioc_grouping |-> IocGrouping.Condensed, max_reports |-> 0]).config

\* A _TcSource of any id up to MaxSourceId
InitId ==
    /\ Untouched
    /\ sources_option = <<"*">>
    /\ config = DefaultConfig
    /\ gen = CondensedReportGenerator
    /\ \E id \in 0..MaxSourceId : source = TcSource(1, [id |-> id, name |-> <<"A">>])
    /\ last = [op |-> "none"]

\* source.generate_id(score), for every score an indicator can have
GenerateId ==
    /\ \E score \in 0..(ScoreListLen - 1) :
          last' = [op |-> "generate_id", score |-> score, ret |-> generate_id(source, score)]
    /\ UNCHANGED <<sources_option, config, client, pc, passes, gen, next_oid, source, kind_idx,
                   fetched, outcome, result, rejected, filtered, failures, added>>

NextId == GenerateId

SpecId == InitId /\ [][NextId]_vars

\* -------------------------------------------- ThreatConnectConfig.__init__ alone
\* The options a configuration is built from: each of url, api_key and
\* secret_key missing or present; ioc_min_score an int of -1..MaxMinScore or a
\* str; filtered_ips missing, a file of two lines (the last one without a line
\* terminator), or a file that cannot be read; ioc_types missing, two kinds,
\* a kind followed by a comma, an unknown name; default_org None or a text.
MinScores ==
    {IntValue(n) : n \in (0 - 1)..MaxMinScore}
    \cup {StrValue(<<"6", "0">>), StrValue(<<" ", "-", "1">>), StrValue(<<"x">>), StrValue(<<>>)}

IpFiles ==
    {NoFile,
     [path |-> <<"i">>, content |-> <<"1", "\n", ":", "1">>, error |-> FALSE],
     [path |-> <<"i">>, content |-> <<>>, error |-> TRUE]}

TypeTexts ==
    {<<>>,
     <<"f", "i", "l", "e", ",", " ", "A", "d", "d", "r", "e", "s", "s">>,
     <<"h", "o", "s", "t", ",">>,
     <<"d", "n", "s">>}

AllOptions ==
    [sources : {<<"*">>},
     url : {<<>>, <<"u">>}, api_key : {<<>>, <<"k">>}, secret_key : {<<>>, <<"s">>},
     ips : IpFiles, hashes : {NoFile}, hosts : {NoFile},
     ioc_min_score : MinScores,
     ioc_types : TypeTexts,
     ioc_grouping : {<<>>},
     max_reports : {0},
     default_org : {NoText, Text(<<" ", "o">>)}]

\* Nothing constructed yet
InitConfig ==
    /\ Untouched
    /\ sources_option = <<>>
    /\ config = NoConfig
    /\ gen = ExpandedReportGenerator
    /\ source = NoSource
    /\ last = [op |-> "none"]

\* ThreatConnectConfig(**options): the object, or the exception raised
Construct ==
    /\ last.op = "none"
    /\ \E o \in AllOptions :
          LET r == ThreatConnectConfig(o)
          IN /\ config' = r.config
             /\ outcome' = IF r.raised = "" THEN "constructed" ELSE r.raised
             /\ sources_option' = o.sources
             /\ last' = [op |-> "construct", options |-> o]
    /\ UNCHANGED <<client, pc, passes, gen, next_oid, source, kind_idx, fetched, result,
                   rejected, filtered, failures, added>>

\* IocFactory.from_text_to_list(text, all_if_none)
FromTextToList ==
    /\ last.op = "none"
    /\ \E text \in TypeTexts, all_if_none \in BOOLEAN :
          last' = [op |-> "from_text_to_list", text |-> text, all_if_none |-> all_if_none,
                   ret |-> from_text_to_list(text, all_if_none)]
    /\ UNCHANGED <<sources_option, config, client, pc, passes, gen, next_oid, source, kind_idx,
                   fetched, outcome, result, rejected, filtered, failures, added>>

\* self._filters() of a generator on the constructed configuration
GeneratorFilters ==
    /\ last.op = "construct"
    /\ ~config.null
    /\ last' = [op |-> "filters", options |-> last.options,
                filters |-> TcReportGenerator_filters(config).filters,
                ret |-> TcReportGenerator_filters(config).ret]
    /\ UNCHANGED <<sources_option, config, client, pc, passes, gen, next_oid, source, kind_idx,
                   fetched, outcome, result, rejected, filtered, failures, added>>

\* ioc_type.create(indicator, source, config) on the constructed configuration,
\* for a kind it enables and a raw record of that kind
Create ==
    /\ last.op = "construct"
    /\ ~config.null
    /\ \E i \in 1..Len(config.ioc_types) : \E raw \in RawRecords(config.ioc_types[i]) :
          last' = [op |-> "create", options |-> last.options, raw |-> raw,
                   indicator |-> Ioc_create(config.ioc_types[i], raw,
                                            TcSource(1, [id |-> 1, name |-> <<"A">>]), config)]
    /\ UNCHANGED <<sources_option, config, client, pc, passes, gen, next_oid, source, kind_idx,
                   fetched, outcome, result, rejected, filtered, failures, added>>

NextConfig ==
    \/ Construct
    \/ FromTextToList
    \/ GeneratorFilters
    \/ Create

SpecConfig == InitConfig /\ [][NextConfig]_vars

\* ------------------------------------------- _CondensedReportGenerator alone
\* The indicators offered to the generator: those the factories of
\* DefaultConfig build from the raw records, for one source
GenIndicators ==
    LET src == TcSource(1, [id |-> 1, name |-> <<"A">>])
    IN UNION {{Ioc_create(k, raw, src, DefaultConfig) : raw \in RawRecords(k)} :
                k \in Range(DefaultConfig.ioc_types)}

\* _CondensedReportGenerator(client)
InitGen ==
    /\ Untouched
    /\ sources_option = <<"*">>
    /\ config = DefaultConfig
    /\ gen = CondensedReportGenerator
    /\ source = TcSource(1, [id |-> 1, name |-> <<"A">>])
    /\ last = [op |-> "none"]

\* generator._add_to_report(indicator), called by any caller
GenAdd ==
    /\ fetched < MaxFetch
    /\ fetched' = fetched + 1
    /\ \E indicator \in GenIndicators :
          LET r == Condensed_add_to_report(gen, config, indicator)
              taken == ~indicator.null /\ ~r.raised /\ TakenUp(gen, r.gen, indicator)
          IN /\ gen' = r.gen
             /\ last' = [op |-> "add", indicator |-> indicator, ret |-> r.ret, raised |-> r.raised]
             /\ added' = IF taken
                         THEN added \cup {<<indicator.source.oid, Indicator_score(indicator),
                                            indicator.key, indicator.value>>}
                         ELSE added
    /\ UNCHANGED <<sources_option, config, client, pc, passes, next_oid, source, kind_idx,
                   outcome, result, rejected, filtered, failures>>

\* generator.reports, read by any caller
GenRead ==
    /\ gen' \in Generator_reports(gen)
    /\ result' = gen'.reports
    /\ last' = [op |-> "read", again |-> (last.op = "read")]
    /\ UNCHANGED <<sources_option, config, client, pc, passes, next_oid, source, kind_idx,
                   fetched, outcome, rejected, filtered, failures, added>>

NextGen ==
    \/ GenAdd
    \/ GenRead

SpecGen == InitGen /\ [][NextGen]_vars

\* ------------------------------------------------------------------- claims
\* A step in which _add_to_report was offered an indicator that is not None
OfferedStep == fetched' = fetched + 1 /\ ~last'.indicator.null

\* The bucket of the indicator's (source, score) in generator g, 0 if none
BucketOf(g, indicator) ==
    IF indicator.source.oid \in DOMAIN g.reports_map
    THEN g.reports_map[indicator.source.oid][Indicator_score(indicator)]
    ELSE 0

\* C1: Expanded, max_reports = M > 0: the generator never holds more than M
\* reports, and an indicator offered once M reports exist is rejected
\* (_add_to_report returns False and adds no report) and generate_reports
\* returns at once with exactly those M reports.
C1_ExpandedNeverOverCap ==
    (gen.kind = "Expanded" /\ config.max_reports > 0) => Len(gen.reports) <= config.max_reports

C1_ExpandedRejectsAtCap ==
    (gen.kind = "Expanded" /\ config.max_reports > 0 /\ OfferedStep
        /\ Len(gen.reports) >= config.max_reports)
    => /\ last'.ret = FALSE
       /\ gen'.reports = gen.reports
       /\ pc' = "idle"
       /\ outcome' = "returned"
       /\ result' = gen.reports
       /\ Len(result') = config.max_reports

C1_ExpandedCap == [](C1_ExpandedNeverOverCap) /\ [][C1_ExpandedRejectsAtCap]_vars

\* C1 witness: an Expanded pass that was stopped by the cap and returned its
\* max_reports reports
C1_Witness ==
    /\ gen.kind = "Expanded" /\ config.max_reports > 0
    /\ outcome = "returned" /\ rejected = 1
    /\ last.op = "add" /\ last.ret = FALSE
    /\ Len(result) = config.max_reports

\* C2: Condensed, max_reports = M > 0: never more than M bucket reports; once
\* M buckets exist, an indicator of a new (source, score) creates no report and
\* contributes no value, and an indicator of an existing bucket is accepted and
\* its value merged into that bucket, the number of reports unchanged.
C2_CondensedNeverOverCap ==
    (gen.kind = "Condensed" /\ config.max_reports > 0) => Len(gen.reports) <= config.max_reports

C2_CondensedAtCap ==
    (gen.kind = "Condensed" /\ config.max_reports > 0 /\ OfferedStep
        /\ Len(gen.reports) >= config.max_reports)
    => LET indicator == last'.indicator
           b == BucketOf(gen, indicator)
       IN IF b = 0
          THEN gen'.reports = gen.reports
          ELSE /\ Len(gen'.reports) = Len(gen.reports)
               /\ \A i \in 1..Len(gen.reports) : i # b => gen'.reports[i] = gen.reports[i]
               /\ BucketOf(gen', indicator) = b
               /\ \A k \in DOMAIN gen.reports[b].iocs :
                     /\ k \in DOMAIN gen'.reports[b].iocs
                     /\ Values(gen.reports[b].iocs[k]) \subseteq Values(gen'.reports[b].iocs[k])
               /\ indicator.key \in DOMAIN gen'.reports[b].iocs
               /\ indicator.value \in Values(gen'.reports[b].iocs[indicator.key])
               /\ last'.ret = TRUE
               /\ pc' = "fetch"

C2_CondensedCap == [](C2_CondensedNeverOverCap) /\ [][C2_CondensedAtCap]_vars

\* C2 witness: a Condensed generator at its cap that has rejected an indicator
\* of a new bucket and has then merged a further value into an existing bucket
C2_Witness ==
    /\ gen.kind = "Condensed" /\ config.max_reports > 0
    /\ Len(gen.reports) = config.max_reports
    /\ rejected > 0
    /\ last.op = "add" /\ ~last.indicator.null
    /\ BucketOf(gen, last.indicator) # 0
    /\ LET iocs == gen.reports[BucketOf(gen, last.indicator)].iocs
       IN /\ last.indicator.key \in DOMAIN iocs
          /\ last.indicator.value \in Values(iocs[last.indicator.key])
          /\ \E k \in DOMAIN iocs : \E v \in Values(iocs[k]) :
                <<k, v>> # <<last.indicator.key, last.indicator.value>>

\* C3: in both strategies the first indicator rejected because of the cap makes
\* _add_to_report return False and ends the pass: nothing more is processed
\* and the reports accumulated are returned.
C3_FirstRejectionEndsPass ==
    rejected > 0 =>
        /\ rejected = 1
        /\ last.op = "add" /\ last.ret = FALSE
        /\ pc = "idle" /\ outcome = "returned"

\* C4: in one pass the cap warning is logged exactly once if an indicator was
\* rejected because of the cap and never otherwise, however many are rejected;
\* _notified_max_reports only goes from False to True.
C4_WarnedOnce ==
    /\ gen.warned = (IF rejected > 0 THEN 1 ELSE 0)
    /\ gen.notified_max_reports = (rejected > 0)

C4_GuardMonotone ==
    (passes' = passes /\ gen.notified_max_reports) => gen'.notified_max_reports

C4_OneWarning == [](C4_WarnedOnce) /\ [][C4_GuardMonotone]_vars

\* C4 witness: a pass in which two indicators were rejected and one warning logged
C4_Witness == rejected >= 2 /\ gen.warned = 1

\* The indicators _add_to_report has taken up in this pass
Taken == fetched - filtered - rejected

\* The values taken up for a source object, a score and a key
AddedValues(oid, score, key) ==
    {a[4] : a \in {b \in added : b[1] = oid /\ b[2] = score /\ b[3] = key}}

\* Condensed: the returned reports are exactly the buckets of what was taken
\* up, one report per (source, score), each key a list of the distinct values
CondensedResultExact ==
    /\ Len(result) = Cardinality({<<a[1], a[2]>> : a \in added})
    /\ \A a \in added :
          /\ a[1] \in DOMAIN gen.reports_map
          /\ LET idx == gen.reports_map[a[1]][a[2]]
             IN /\ idx \in 1..Len(result)
                /\ \A oid \in DOMAIN gen.reports_map : \A sc \in 0..(ScoreListLen - 1) :
                      gen.reports_map[oid][sc] = idx => (oid = a[1] /\ sc = a[2])
                /\ result[idx].score = a[2]
                /\ a[3] \in DOMAIN result[idx].iocs
                /\ LET c == result[idx].iocs[a[3]]
                   IN /\ c.list
                      /\ Range(c.vals) = AddedValues(a[1], a[2], a[3])
                      /\ Len(c.vals) = Cardinality(Range(c.vals))
                /\ \A k \in DOMAIN result[idx].iocs : AddedValues(a[1], a[2], k) # {}

\* C5: Condensed: accepted indicators of the same source, score and key give
\* exactly one report for that (source, score), whose iocs[key] holds exactly
\* the distinct values added, whatever the order, a repeated value once.
C5_CondensedMerge ==
    (gen.kind = "Condensed" /\ outcome = "returned") => CondensedResultExact

\* C5 witness: a returned Condensed result with a key of two values, one of
\* which was added twice
C5_Witness ==
    /\ gen.kind = "Condensed" /\ outcome = "returned"
    /\ Taken > Cardinality(added)
    /\ \E i \in 1..Len(result) : \E k \in DOMAIN result[i].iocs : Len(result[i].iocs[k].vals) = 2

\* The filter set of the kind a sub-type key belongs to
FilterOfKey(key) ==
    CASE key \in {"ipv4", "ipv6"} -> config.filtered_ips
      [] key \in {"md5", "sha256"} -> config.filtered_hashes
      [] key = "dns" -> config.filtered_hosts

NoFilteredValue(reports) ==
    \A i \in 1..Len(reports) : \A k \in DOMAIN reports[i].iocs :
        \A v \in Values(reports[i].iocs[k]) : v \notin FilterOfKey(k)

\* C6: in both strategies no value that is a member of the filter set of its
\* kind is among the iocs of a report, accumulated or returned.
C6_FilteredNeverReported == NoFilteredValue(gen.reports) /\ NoFilteredValue(result)

\* C6 witness: a pass that returned reports and in which a record whose value
\* is in its kind's filter set was fetched
C6_Witness ==
    /\ outcome = "returned" /\ result # <<>>
    /\ filtered > 0
    /\ config.filtered_ips # {}

\* The names the sources option allows, and whether it is the wildcard
Allowed(name) ==
    LET fresh == Sources_init(sources_option)
    IN fresh.all \/ name \in Range(fresh.values)

\* C7: an owner of the listing is yielded as a Source iff its name is in the
\* configured allow-list (every owner for "*"), whichever owners were tested
\* before it.
C7_YieldedIffAllowed ==
    last.op = "test" => (last.yielded <=> Allowed(last.name))

\* Every indicator taken up is in the reports
AllTakenReported(reports) ==
    IF gen.kind = "Condensed" THEN CondensedResultExact
    ELSE /\ Len(reports) = Taken
         /\ \A a \in added : \E i \in 1..Len(reports) :
               /\ reports[i].score = a[2]
               /\ a[3] \in DOMAIN reports[i].iocs
               /\ a[4] \in Values(reports[i].iocs[a[3]])

\* C8: a fetch failure of one (source, kind) does not fail generate_reports:
\* the reports accumulated are kept, the pass goes on with the next kind of the
\* source and then the next sources, and the result holds the reports of every
\* indicator taken up.
C8_FailureStep ==
    (failures' = failures + 1) =>
        /\ gen' = gen /\ added' = added
        /\ outcome' = "running" /\ result' = result
        /\ source' = source
        /\ IF kind_idx < Len(config.ioc_types)
           THEN pc' = "fetch" /\ kind_idx' = kind_idx + 1
           ELSE pc' = "sources"

C8_ResultComplete == outcome = "returned" => AllTakenReported(result)

C8_FetchFailureRecovered == [][C8_FailureStep]_vars /\ [](C8_ResultComplete)

\* C8 witness: a pass over two owners in which a fetch failed and that went
\* on to the end of the listing and returned at least two reports
C8_Witness ==
    /\ outcome = "returned" /\ failures > 0
    /\ Len(result) >= 2
    /\ last.op = "owners_end"
    /\ next_oid > 2

\* C9: a failure of the owner listing, before the first owner or after some,
\* leaves generate_reports as an exception: no report collection is returned.
C9_ListingFailurePropagates ==
    last.op = "owners_fail" =>
        /\ pc = "idle"
        /\ outcome \in ListingErrors
        /\ result = <<>>

\* C9 witness: the listing failed after an owner was processed and reports
\* were accumulated
C9_Witness ==
    /\ last.op = "owners_fail"
    /\ next_oid > 1
    /\ gen.reports # <<>>

\* C10: before initialize, generate_reports raises "not initialized" and runs
\* no generator; after it, the generator of the configured grouping runs and
\* its accumulated reports are returned.
C10_CallStep ==
    (pc = "idle" /\ last'.op = "call") =>
        IF ~client
        THEN /\ outcome' = "RuntimeError: not initialized"
             /\ gen' = gen /\ passes' = passes /\ pc' = "idle"
        ELSE /\ gen' = reportGenerators[config.ioc_grouping]
             /\ gen'.kind = config.ioc_grouping
             /\ pc' = "sources"

C10_Returned ==
    /\ pc # "idle" => client
    /\ outcome = "returned" =>
          (client /\ gen.kind = config.ioc_grouping /\ result = gen.reports)

C10_NotInitialized == [][C10_CallStep]_vars /\ [](C10_Returned)

\* C10 witness: generate_reports was called before initialize and raised
C10_Witness ==
    /\ ~client
    /\ last.op = "call"
    /\ outcome = "RuntimeError: not initialized"
    /\ passes = 0 /\ pc = "idle"

\* C11: Expanded, with the cap 0 or not yet reached: every indicator that is
\* not None appends exactly one report after those already there (arrival
\* order), whose iocs has the one key of the indicator mapped to the list of
\* its one value; no other step of the pass changes the reports, so N accepted
\* indicators are N reports, equal values included.
C11_ExpandedStep ==
    (gen.kind = "Expanded" /\ passes' = passes) =>
        IF OfferedStep /\ ~CapReached(gen, config)
        THEN LET indicator == last'.indicator
                 n == Len(gen.reports) + 1
             IN /\ Len(gen'.reports) = n
                /\ SubSeq(gen'.reports, 1, n - 1) = gen.reports
                /\ DOMAIN gen'.reports[n].iocs = {indicator.key}
                /\ gen'.reports[n].iocs[indicator.key] = PyList(<<indicator.value>>)
                /\ last'.ret = TRUE
        ELSE gen'.reports = gen.reports

C11_ExpandedCount ==
    gen.kind = "Expanded" =>
        /\ Len(gen.reports) = Taken
        /\ outcome = "returned" => result = gen.reports

C11_ExpandedOnePerIndicator == [][C11_ExpandedStep]_vars /\ [](C11_ExpandedCount)

\* C11 witness: an uncapped Expanded pass that returned three reports for three
\* indicators, two of them with the same key and value
C11_Witness ==
    /\ gen.kind = "Expanded" /\ config.max_reports = 0
    /\ outcome = "returned" /\ Len(result) = 3 /\ Taken = 3
    /\ \E i, j \in 1..Len(result) : i # j /\ result[i].iocs = result[j].iocs

\* C12: for a source of id S and a score K in 0..100, generate_id returns
\* (S << 8) | K, which is S * 256 + K, and no other score of 0..100 gives the
\* same id for that source.
C12_GeneratedId ==
    last.op = "generate_id" =>
        /\ last.ret = source.id * 256 + last.score
        /\ \A k \in 0..100 : k # last.score => generate_id(source, k) # last.ret

\* C12 witness: the id of source 3 for the score 100
C12_Witness ==
    last.op = "generate_id" /\ source.id = 3 /\ last.score = 100 /\ last.ret = 868

\* C13: with url, api_key and secret_key present, the construction of a
\* ThreatConnectConfig fails and leaves no object for every ioc_min_score that
\* is not a number or is an integer below 0 or above 100.
C13_BadMinScoreFails ==
    (/\ last.op = "construct"
     /\ last.options.url # <<>> /\ last.options.api_key # <<>> /\ last.options.secret_key # <<>>
     /\ LET n == PyInt(last.options.ioc_min_score)
        IN ~n.ok \/ n.value < 0 \/ n.value > 100)
    => (outcome # "constructed" /\ config = NoConfig)

\* C14: for every ioc_min_score the construction accepts, the stored threshold
\* times 20 is max(0, min(100, ioc_min_score)) (60 is stored as 3), and
\* _filters adds the rating filter whenever the min-score is above 0.
C14_ThresholdIsClamp ==
    (last.op \in {"construct", "filters"} /\ outcome = "constructed") =>
        LET n == PyInt(last.options.ioc_min_score).value
        IN /\ config.ioc_min_score = PyMax(0, PyMin(100, n))
           /\ (last.op = "filters" /\ n > 0) =>
                 \E f \in last.filters : f[1] = "rating" /\ f[2] = ">="

\* The kind each piece of a comma-separated text names, in order
NamedKinds(text) ==
    LET pieces == Split(text, ",")
    IN [i \in 1..Len(pieces) |-> EnumLookup(IocType, Upper(Strip(pieces[i])))]

\* The options with ioc_types replaced by the name of one kind
WithKinds(o) == [o EXCEPT !.ioc_types = <<"f", "i", "l", "e">>]

\* C15: from_text_to_list gives, for a non-empty text, the kinds named in
\* order, or fails if a name is not a kind; for an empty text all three kinds
\* when all_if_none, else the empty list; and a ThreatConnectConfig built
\* without ioc_types (its other options valid) enables File, Address and Host.
C15_KindsFromText ==
    /\ last.op = "from_text_to_list" =>
          IF last.text # <<>>
          THEN IF \E i \in 1..Len(NamedKinds(last.text)) : NamedKinds(last.text)[i] = "ValueError"
               THEN last.ret.raised # ""
               ELSE last.ret.raised = "" /\ last.ret.list = NamedKinds(last.text)
          ELSE /\ last.ret.raised = ""
               /\ IF last.all_if_none
                  THEN /\ Range(last.ret.list) = DOMAIN IocType
                       /\ Len(last.ret.list) = Cardinality(DOMAIN IocType)
                  ELSE last.ret.list = <<>>
    /\ (/\ last.op = "construct"
        /\ last.options.ioc_types = <<>>
        /\ ThreatConnectConfig(WithKinds(last.options)).raised = "")
       => (outcome = "constructed" /\ Range(config.ioc_types) = DOMAIN IocType)

\* The values written on the lines of a text: each line without its line
\* terminator and surrounding whitespace
LineValues(content) == {Strip(l) : l \in Range(ReadLines(content))}

\* C16: a configured filter file gives the set of its lines, trimmed, so every
\* value written on a line is in the filter set and an indicator with that
\* value is filtered out (the factory returns None); without a path the set is
\* empty; a file that cannot be read makes the construction fail.
C16_FilterFileLines ==
    /\ last.op = "construct" =>
          IF last.options.ips.path = <<>>
          THEN outcome = "constructed" => config.filtered_ips = {}
          ELSE IF last.options.ips.error
          THEN outcome # "constructed" /\ config = NoConfig
          ELSE outcome = "constructed" =>
                  config.filtered_ips = LineValues(last.options.ips.content)
    /\ (/\ last.op = "create"
        /\ "ip" \in DOMAIN last.raw
        /\ last.options.ips.path # <<>>
        /\ last.raw.ip \in LineValues(last.options.ips.content))
       => last.indicator.null

\* The reports present, for every bucket and key, a duplicate-free list of
\* exactly the values whose add completed
PresentsAdded(reports) ==
    /\ \A i \in 1..Len(reports) : \A k \in DOMAIN reports[i].iocs :
          /\ reports[i].iocs[k].list
          /\ Len(reports[i].iocs[k].vals) = Cardinality(Range(reports[i].iocs[k].vals))
    /\ \A oid \in DOMAIN gen.reports_map : \A sc \in 0..(ScoreListLen - 1) :
          LET idx == gen.reports_map[oid][sc]
          IN idx # 0 =>
                \A k \in DOMAIN reports[idx].iocs :
                    Values(reports[idx].iocs[k]) = AddedValues(oid, sc, k)
    /\ \A a \in added :
          /\ a[1] \in DOMAIN gen.reports_map
          /\ gen.reports_map[a[1]][a[2]] \in 1..Len(reports)
          /\ a[3] \in DOMAIN reports[gen.reports_map[a[1]][a[2]]].iocs

\* C17: Condensed: a read of reports after adds presents every iocs value as a
\* list (never a set) of the distinct values added and leaves _converted_sets
\* True; a second read with no add in between returns the same reports with
\* the same contents and changes nothing (no reconversion).
C17_ReadPresentsLists ==
    last.op = "read" =>
        /\ result = gen.reports
        /\ gen.converted_sets
        /\ PresentsAdded(result)

C17_RereadStep ==
    (last.op = "read" /\ last'.op = "read") => (gen' = gen /\ result' = result)

C17_LazyConversion == [](C17_ReadPresentsLists) /\ [][C17_RereadStep]_vars

\* C17 witness: reports read twice in a row after three adds, one key holding
\* two values
C17_Witness ==
    /\ gen.kind = "Condensed"
    /\ last.op = "read" /\ last.again
    /\ Cardinality(added) = 3
    /\ \E i \in 1..Len(result) : \E k \in DOMAIN result[i].iocs : Len(result[i].iocs[k].vals) = 2

\* C18: Condensed, any interleaving of adds and reads on one generator: every
\* add of an accepted indicator ends without an exception and its value is
\* then in its bucket, also when an earlier read had converted that key to a
\* list; every read presents the lists of exactly the values added so far.
C18_AnyInterleaving ==
    /\ (last.op = "add" /\ ~last.indicator.null) =>
          /\ ~last.raised
          /\ BucketOf(gen, last.indicator) # 0
          /\ LET iocs == gen.reports[BucketOf(gen, last.indicator)].iocs
             IN /\ last.indicator.key \in DOMAIN iocs
                /\ last.indicator.value \in Values(iocs[last.indicator.key])
    /\ last.op = "read" => PresentsAdded(result)

\* C19: the result of a Condensed pass never holds two reports with the same
\* id, whatever owners the listing yields (different ones, or one of them more
\* than once) and whatever the scores.
C19_DistinctReportIds ==
    (gen.kind = "Condensed" /\ outcome = "returned") =>
        \A i, j \in 1..Len(result) : i # j => result[i].id # result[j].id

\* C20: in both strategies a None (filtered-out) indicator offered to
\* _add_to_report leaves the generator as it is (reports, bucket map, cap
\* notification), gets True, is not counted against the cap and does not end
\* the pass, also once the cap is reached; an Expanded pass at its cap ends at
\* the next indicator that is not None.
C20_NoneStep ==
    (fetched' = fetched + 1 /\ last'.indicator.null) =>
        /\ gen' = gen
        /\ last'.ret = TRUE /\ ~last'.raised
        /\ rejected' = rejected
        /\ pc' = pc /\ outcome' = "running" /\ result' = result
        /\ source' = source /\ kind_idx' = kind_idx

C20_ExpandedEndsAtNext ==
    (gen.kind = "Expanded" /\ CapReached(gen, config) /\ OfferedStep) =>
        (pc' = "idle" /\ outcome' = "returned" /\ result' = gen.reports)

C20_NoneChangesNothing == [][C20_NoneStep /\ C20_ExpandedEndsAtNext]_vars

\* C20 witness: an Expanded pass at its cap that was just offered a None and
\* goes on fetching
C20_Witness ==
    /\ gen.kind = "Expanded" /\ CapReached(gen, config)
    /\ last.op = "add" /\ last.indicator.null /\ last.ret
    /\ filtered > 0
    /\ pc = "fetch" /\ outcome = "running"

====
